---- MODULE Spec2Model ----
(***************************************************************************)
(* A model of audio2strudel-core: pitch, tempo and key estimation, melody  *)
(* extraction and chord synthesis.                                         *)
(*                                                                         *)
(* Every public function of the library is pure, so each is modelled as a  *)
(* small state machine whose variable is the activation record of one      *)
(* call: the arguments drawn by its Init, the locals of its loops, and the *)
(* value returned.  A variable whose function is not running holds Idle.   *)
(*                                                                         *)
(* Numbers.  JavaScript numbers are IEEE doubles; the model uses exact     *)
(* integer and rational arithmetic on fixed-point grids:                   *)
(*   - frequencies are integers in millihertz;                             *)
(*   - sample amplitudes are integers in hundredths (100 is 1.0);          *)
(*   - times of the sample buffer are integers in samples (seconds are     *)
(*     samples / sampleRate);                                              *)
(*   - strings are sequences of one-character strings, so that formatting  *)
(*     and parsing are modelled by what they do.                           *)
(***************************************************************************)
EXTENDS Integers, Sequences, FiniteSets, TLC

VARIABLES pitch, tempo, onset, qtempo, key, trans, melody, chordgen,
          extract, simplify, quantize

vars == <<pitch, tempo, onset, qtempo, key, trans, melody, chordgen,
          extract, simplify, quantize>>

Idle == [pc |-> "idle"]

(***************************************************************************)
(* Strings and numbers                                                     *)
(***************************************************************************)
Digits == <<"0", "1", "2", "3", "4", "5", "6", "7", "8", "9">>

IsDigit(c) == \E d \in 1..10 : Digits[d] = c

DigitValue(c) == (CHOOSE d \in 1..10 : Digits[d] = c) - 1

\* `${n}` for an integer n
RECURSIVE NatToString(_)
NatToString(n) ==
  IF n < 10 THEN <<Digits[n + 1]>>
  ELSE NatToString(n \div 10) \o <<Digits[(n % 10) + 1]>>

IntToString(n) == IF n < 0 THEN <<"-">> \o NatToString(-n) ELSE NatToString(n)

\* parseInt / Number of a non-empty digit string
RECURSIVE ParseNat(_)
ParseNat(s) ==
  IF s = <<>> THEN 0
  ELSE 10 * ParseNat(SubSeq(s, 1, Len(s) - 1)) + DigitValue(s[Len(s)])

AllDigits(s) == \A k \in 1..Len(s) : IsDigit(s[k])

\* Array.prototype.indexOf, 0-based, -1 when absent
IndexOf(arr, x) ==
  IF \E k \in 1..Len(arr) : arr[k] = x
  THEN (CHOOSE k \in 1..Len(arr) : arr[k] = x /\ \A j \in 1..(k - 1) : arr[j] # x) - 1
  ELSE -1

\* JavaScript's remainder: the sign of the dividend
JsRem(a, b) == IF a >= 0 THEN a % b ELSE -((-a) % b)

Abs(x) == IF x < 0 THEN -x ELSE x

Max(a, b) == IF a >= b THEN a ELSE b

Min(a, b) == IF a <= b THEN a ELSE b

\* x * 2^e, rounded down
RECURSIVE Scale2(_, _)
Scale2(x, e) ==
  IF e = 0 THEN x
  ELSE IF e > 0 THEN Scale2(2 * x, e - 1)
  ELSE Scale2(x \div 2, e + 1)

(***************************************************************************)
(* Pitch: frequency <-> note name                                          *)
(***************************************************************************)
NOTE_NAMES ==
  << <<"c">>, <<"c", "s">>, <<"d">>, <<"d", "s">>, <<"e">>, <<"f">>,
     <<"f", "s">>, <<"g">>, <<"g", "s">>, <<"a">>, <<"a", "s">>, <<"b">> >>

Rest == <<"r", "e", "s", "t">>

\* a4 * 2^(n/24) in millihertz for the quarter tones n of the octave that
\* starts 5.25 octaves above a4 (its entry 19 is a4 * 2^6): the fixed-point
\* table behind Math.pow(2, x / 12) and Math.log2.
QuarterTones ==
  << 16744036, 17234674, 17739688, 18259501, 18794545, 19345267,
     19912127, 20495597, 21096164, 21714328, 22350607, 23005530,
     23679643, 24373510, 25087708, 25822834, 26579501, 27358339,
     28160000, 28985151, 29834481, 30708698, 31608531, 32534732 >>

\* c0 * 2^(n/24) in millihertz, c0 = a4 * 2^(-4.75); n counts quarter tones
\* above c0
QuarterToneFreq(n) == Scale2(QuarterTones[(n % 24) + 1], (n \div 24) - 10)

\* floor(2 * 12 * log2(freq / c0)) for a frequency of at least c0
HalfSteps2(freq) ==
  LET o == CHOOSE k \in 0..12 :
             /\ QuarterToneFreq(24 * k) <= freq
             /\ k < 12 => freq < QuarterToneFreq(24 * (k + 1))
  IN  CHOOSE n \in (24 * o)..(24 * o + 23) :
        /\ QuarterToneFreq(n) <= freq
        /\ n < 24 * o + 23 => freq < QuarterToneFreq(n + 1)

frequencyToNote(freq) ==
  IF freq < 50000 THEN Rest
  ELSE LET halfSteps2 == HalfSteps2(freq)
           octave == halfSteps2 \div 24
           \* Math.round(halfSteps % 12): 0..12
           note == ((halfSteps2 % 24) + 1) \div 2
           clampedNote == (JsRem(note, 12) + 12) % 12
       IN  NOTE_NAMES[clampedNote + 1] \o IntToString(octave)

frequencyToPitchClass(freq) ==
  IF freq < 50000 THEN -1
  ELSE LET halfSteps2 == HalfSteps2(freq)
       IN  (JsRem((halfSteps2 + 1) \div 2, 12) + 12) % 12

\* the match of /^([a-gs]+)(\d+)$/: the length of group 1, or 0 for no match
IsNoteChar(c) == c \in {"a", "b", "c", "d", "e", "f", "g", "s"}

NoteMatch(note) ==
  LET cuts == {k \in 1..(Len(note) - 1) :
                 /\ \A j \in 1..k : IsNoteChar(note[j])
                 /\ AllDigits(SubSeq(note, k + 1, Len(note)))}
  IN  IF cuts = {} THEN 0 ELSE CHOOSE k \in cuts : TRUE

noteToFrequencyOff(note) ==
  LET k == NoteMatch(note)
      octave == ParseNat(SubSeq(note, k + 1, Len(note)))
      noteIndex == IndexOf(NOTE_NAMES, SubSeq(note, 1, k))
      halfSteps == (octave - 4) * 12 + noteIndex - 8
  IN  IF k = 0 \/ noteIndex = -1 THEN 0
      ELSE QuarterToneFreq(2 * (halfSteps + 57))

noteToFrequency(note) ==
  LET k == NoteMatch(note)
      octave == ParseNat(SubSeq(note, k + 1, Len(note)))
      noteIndex == IndexOf(NOTE_NAMES, SubSeq(note, 1, k))
      halfSteps == (octave - 4) * 12 + noteIndex - 9
  IN  IF k = 0 \/ noteIndex = -1 THEN 0
      \* a4 * 2^(halfSteps / 12); a4 lies 57 semitones above c0
      ELSE QuarterToneFreq(2 * (halfSteps + 57))

\* the trailing digits of a label, as /(\d+)$/ finds them, or -1
LabelOctave(label) ==
  LET k == NoteMatch(label)
  IN  IF k = 0 THEN -1 ELSE ParseNat(SubSeq(label, k + 1, Len(label)))

(***************************************************************************)
(* The round trip frequencyToNote -> noteToFrequency -> frequencyToNote    *)
(***************************************************************************)
\* highest octave whose frequencies are tried
MaxOctave == 9

\* 261600 is the 261.6 Hz tone, a little below c4
PitchInputs ==
  {49999, 261600} \cup
  {QuarterToneFreq(n) + d : n \in 36..(24 * MaxOctave), d \in {-1, 0, 1}}

PitchInit ==
  pitch \in [pc : {"start"}, freq : PitchInputs, label : {<<>>},
             back : {0}, again : {<<>>}]

PitchOthers == <<tempo, onset, qtempo, key, trans, melody, chordgen,
  extract, simplify, quantize>>

PitchLabel ==
  /\ pitch.pc = "start"
  /\ pitch' = [pitch EXCEPT !.pc = "labelled", !.label = frequencyToNote(pitch.freq)]
  /\ UNCHANGED PitchOthers

PitchBack ==
  /\ pitch.pc = "labelled"
  /\ pitch' = [pitch EXCEPT !.pc = "back", !.back = noteToFrequency(pitch.label)]
  /\ UNCHANGED PitchOthers

PitchAgain ==
  /\ pitch.pc = "back"
  /\ pitch' = [pitch EXCEPT !.pc = "done", !.again = frequencyToNote(pitch.back)]
  /\ UNCHANGED PitchOthers

PitchNext == PitchLabel \/ PitchBack \/ PitchAgain

InitPitch ==
  /\ PitchInit
  /\ tempo = Idle /\ onset = Idle /\ qtempo = Idle /\ key = Idle
  /\ trans = Idle /\ melody = Idle /\ chordgen = Idle
  /\ extract = Idle /\ simplify = Idle /\ quantize = Idle

SpecPitch == InitPitch /\ [][PitchNext]_vars

\* C6 as claimed: every note label of octaves 0 to 8 that frequencyToNote
\* produces is reproduced by frequencyToNote(noteToFrequency(label)).
RoundTripAllLabels ==
  (pitch.pc = "done" /\ pitch.label # Rest /\ LabelOctave(pitch.label) \in 0..8)
    => pitch.again = pitch.label

\* C6 as amended: the round trip reproduces every produced label of octaves
\* 0 to 8 whose own frequency is at least 50 Hz (gs1 and above); the labels
\* g1 and c1 come back as the rest sentinel.
RoundTripAudibleLabels ==
  /\ (pitch.pc = "done" /\ pitch.label # Rest /\ LabelOctave(pitch.label) \in 0..8
        /\ pitch.back >= 50000)
       => pitch.again = pitch.label
  /\ (pitch.pc = "done" /\ pitch.label # Rest /\ pitch.back < 50000)
       => (pitch.again = Rest /\ pitch.label \in {<<"g", "1">>, <<"c", "1">>})

RoundTripWitness ==
  /\ pitch.pc = "done"
  /\ pitch.label = <<"c", "s", "8">>
  /\ pitch.again = pitch.label
  /\ pitch.back # pitch.freq

RoundTripRestWitness ==
  pitch.pc = "done" /\ pitch.label = <<"g", "1">> /\ pitch.again = Rest

(***************************************************************************)
(* Tempo: quantizeTempo                                                    *)
(***************************************************************************)
commonTempos == <<60, 70, 80, 90, 100, 110, 120, 130, 140, 150, 160, 170, 180, 190, 200>>

\* the for-of loop: acc is <<closest, minDiff>>, k the next index to visit
RECURSIVE ClosestFromUpper(_, _, _)
ClosestFromUpper(tempoIn, acc, k) ==
  IF k > Len(commonTempos) THEN acc[1]
  ELSE LET t == commonTempos[k]
           diff == Abs(tempoIn - t)
       IN  IF diff <= acc[2] THEN ClosestFromUpper(tempoIn, <<t, diff>>, k + 1)
           ELSE ClosestFromUpper(tempoIn, acc, k + 1)

RECURSIVE ClosestFrom(_, _, _)
ClosestFrom(tempoIn, acc, k) ==
  IF k > Len(commonTempos) THEN acc[1]
  ELSE LET t == commonTempos[k]
           diff == Abs(tempoIn - t)
       IN  IF diff < acc[2] THEN ClosestFrom(tempoIn, <<t, diff>>, k + 1)
           ELSE ClosestFrom(tempoIn, acc, k + 1)

quantizeTempoUpper(tempoIn) ==
  ClosestFromUpper(tempoIn, <<commonTempos[1], Abs(tempoIn - commonTempos[1])>>, 1)

quantizeTempo(tempoIn) ==
  ClosestFrom(tempoIn, <<commonTempos[1], Abs(tempoIn - commonTempos[1])>>, 1)

\* tempos tried: -MaxTempoIn .. MaxTempoIn
MaxTempoIn == 260

QtempoOthers == <<pitch, tempo, onset, key, trans, melody, chordgen,
  extract, simplify, quantize>>

QtempoInit ==
  qtempo \in [pc : {"start"}, tempo : (-MaxTempoIn)..MaxTempoIn, result : {0}, again : {0}]

QtempoQuantize ==
  /\ qtempo.pc = "start"
  /\ qtempo' = [qtempo EXCEPT !.pc = "quantized", !.result = quantizeTempo(qtempo.tempo)]
  /\ UNCHANGED QtempoOthers

QtempoAgain ==
  /\ qtempo.pc = "quantized"
  /\ qtempo' = [qtempo EXCEPT !.pc = "done", !.again = quantizeTempo(qtempo.result)]
  /\ UNCHANGED QtempoOthers

QtempoNext == QtempoQuantize \/ QtempoAgain

InitQtempo ==
  /\ QtempoInit
  /\ pitch = Idle /\ tempo = Idle /\ onset = Idle /\ key = Idle
  /\ trans = Idle /\ melody = Idle /\ chordgen = Idle
  /\ extract = Idle /\ simplify = Idle /\ quantize = Idle

SpecQtempo == InitQtempo /\ [][QtempoNext]_vars

Lattice == {60 + 10 * k : k \in 0..14}

\* C5: quantizeTempo(t) is a member of {60, 70, ..., 200} at minimal absolute
\* difference from t, the lower member on an exact tie, and quantizing the
\* result again returns it.
QuantizeTempoNearest ==
  qtempo.pc = "done" =>
    /\ qtempo.result \in Lattice
    /\ \A u \in Lattice :
         /\ Abs(qtempo.tempo - qtempo.result) <= Abs(qtempo.tempo - u)
         /\ Abs(qtempo.tempo - u) = Abs(qtempo.tempo - qtempo.result) => qtempo.result <= u
    /\ qtempo.again = qtempo.result

QuantizeTempoTieWitness ==
  qtempo.pc = "done" /\ qtempo.tempo = 125 /\ qtempo.result = 120 /\ qtempo.again = 120

(***************************************************************************)
(* Tempo: calculateAverageInterval                                         *)
(*                                                                         *)
(* Onset timestamps are integers in half seconds.  bpm is a double: either *)
(* an infinity (inf = 1 or -1) or the finite value (num / den) * 2^exp     *)
(* with den > 0.  Doubling and halving a finite double only move its       *)
(* exponent, until the value passes 2^1024 and becomes an infinity.        *)
(***************************************************************************)
\* floor(log2(n / d)) for integers n, d > 0 with 2^-12 <= n / d < 2^13
Log2Floor(n, d) ==
  CHOOSE k \in (-12)..12 :
    /\ IF k >= 0 THEN Scale2(d, k) <= n ELSE d <= Scale2(n, -k)
    /\ IF k + 1 >= 0 THEN Scale2(d, k + 1) > n ELSE d > Scale2(n, -(k + 1))

\* a / b as a double, for integers a > 0 and b
FDiv(a, b) ==
  IF b = 0 THEN [inf |-> 1, num |-> 0, den |-> 1, exp |-> 0]
  ELSE IF b > 0 THEN [inf |-> 0, num |-> a, den |-> b, exp |-> 0]
  ELSE [inf |-> 0, num |-> -a, den |-> -b, exp |-> 0]

\* x < c and x > c for a double x and an integer c > 0
FLess(x, c) ==
  IF x.inf # 0 THEN x.inf = -1
  ELSE IF x.num <= 0 THEN TRUE
  ELSE IF x.exp >= 0 THEN Scale2(x.num, x.exp) < c * x.den
  ELSE x.num < Scale2(c * x.den, -x.exp)

FGreater(x, c) ==
  IF x.inf # 0 THEN x.inf = 1
  ELSE IF x.num <= 0 THEN FALSE
  ELSE IF x.exp >= 0 THEN Scale2(x.num, x.exp) > c * x.den
  ELSE x.num > Scale2(c * x.den, -x.exp)

FTimes2(x) ==
  IF x.inf # 0 THEN x
  ELSE IF Log2Floor(Abs(x.num), x.den) + x.exp + 1 >= 1024
       THEN [x EXCEPT !.inf = IF x.num < 0 THEN -1 ELSE 1]
  ELSE [x EXCEPT !.exp = @ + 1]

FHalf(x) == IF x.inf # 0 THEN x ELSE [x EXCEPT !.exp = @ - 1]

\* Math.round of a finite positive double of moderate size
FRound(x) ==
  LET n == IF x.exp >= 0 THEN Scale2(x.num, x.exp) ELSE x.num
      d == IF x.exp >= 0 THEN x.den ELSE Scale2(x.den, -x.exp)
  IN  (2 * n + d) \div (2 * d)

RECURSIVE SumSeq(_)
SumSeq(s) == IF s = <<>> THEN 0 ELSE s[1] + SumSeq(Tail(s))

\* longest onset sequence and latest timestamp (half seconds) tried
MaxOnsets == 3
MaxOnsetTime == 3

OnsetOthers == <<pitch, tempo, qtempo, key, trans, melody, chordgen,
  extract, simplify, quantize>>

OnsetInit ==
  \E n \in 2..MaxOnsets :
    onset \in [pc : {"start"}, onsets : [1..n -> 0..MaxOnsetTime],
               bpm : {FDiv(60, 1)}, result : {0}]

\* lines 70-78: the intervals, their average and the conversion to BPM
OnsetAverage ==
  /\ onset.pc = "start"
  /\ LET intervals == [k \in 1..(Len(onset.onsets) - 1) |->
                         onset.onsets[k + 1] - onset.onsets[k]]
         \* avgInterval in seconds is SumSeq(intervals) / (2 * Len(intervals))
     IN  onset' = [onset EXCEPT !.pc = "double",
                     !.bpm = FDiv(60 * 2 * Len(intervals), SumSeq(intervals))]
  /\ UNCHANGED OnsetOthers

\* while (bpm < 60) bpm *= 2
OnsetDouble ==
  /\ onset.pc = "double"
  /\ FLess(onset.bpm, 60)
  /\ onset' = [onset EXCEPT !.bpm = FTimes2(onset.bpm)]
  /\ UNCHANGED OnsetOthers

OnsetDoubled ==
  /\ onset.pc = "double"
  /\ ~FLess(onset.bpm, 60)
  /\ onset' = [onset EXCEPT !.pc = "halve"]
  /\ UNCHANGED OnsetOthers

\* while (bpm > 200) bpm /= 2
OnsetHalve ==
  /\ onset.pc = "halve"
  /\ FGreater(onset.bpm, 200)
  /\ onset' = [onset EXCEPT !.bpm = FHalf(onset.bpm)]
  /\ UNCHANGED OnsetOthers

OnsetReturn ==
  /\ onset.pc = "halve"
  /\ ~FGreater(onset.bpm, 200)
  /\ onset' = [onset EXCEPT !.pc = "done", !.result = FRound(onset.bpm)]
  /\ UNCHANGED OnsetOthers

OnsetNext == OnsetAverage \/ OnsetDouble \/ OnsetDoubled \/ OnsetHalve \/ OnsetReturn

InitOnset ==
  /\ OnsetInit
  /\ pitch = Idle /\ tempo = Idle /\ qtempo = Idle /\ key = Idle
  /\ trans = Idle /\ melody = Idle /\ chordgen = Idle
  /\ extract = Idle /\ simplify = Idle /\ quantize = Idle

SpecOnset == InitOnset /\ [][OnsetNext]_vars

\* The loops are ordinary sequential code: a step that can be taken is taken.
FairSpecOnset == SpecOnset /\ WF_vars(OnsetNext)

\* C9: for every sequence of at least two onset timestamps the normalisation
\* loops terminate and the function returns an integer BPM in [60, 200].
AverageIntervalReturnsInRange ==
  <>(onset.pc = "done" /\ onset.result \in 60..200)

\* what does hold: a call that returns, returns a BPM in [60, 200]
AverageIntervalRangeOnReturn ==
  onset.pc = "done" => onset.result \in 60..200

\* the loop that cannot end: bpm is an infinity and a loop condition holds
AverageIntervalStuck ==
  /\ onset.bpm.inf # 0
  /\ \/ onset.pc = "double" /\ FLess(onset.bpm, 60)
     \/ onset.pc = "halve" /\ FGreater(onset.bpm, 200)

(***************************************************************************)
(* Sample buffers                                                          *)
(*                                                                         *)
(* A Float32Array is modelled by its length and its non-zero samples: imp  *)
(* maps the index of each non-zero sample to its amplitude in hundredths.  *)
(* A sum over the samples of a frame is the sum over the non-zero ones.    *)
(***************************************************************************)
RECURSIVE SumOver(_, _)
SumOver(f, S) ==
  IF S = {} THEN 0
  ELSE LET x == CHOOSE y \in S : TRUE IN f[x] + SumOver(f, S \ {x})

\* impulses of amplitude amp every period samples from first on
Clicks(length, first, period, amp) ==
  [length |-> length,
   imp |-> [k \in {j \in first..(length - 1) : (j - first) % period = 0 /\ amp # 0} |-> amp]]

\* the non-zero samples of data.slice(i, i + size), by their index in the slice
Frame(data, i, size) ==
  [j \in {k - i : k \in {m \in DOMAIN data.imp : m >= i /\ m < i + size}} |-> data.imp[i + j]]

SumSq(frame) == SumOver([j \in DOMAIN frame |-> frame[j] * frame[j]], DOMAIN frame)

\* floor of the square root, by bisection: lo^2 <= x < hi^2
RECURSIVE SqrtIn(_, _, _)
SqrtIn(x, lo, hi) ==
  IF hi = lo + 1 THEN lo
  ELSE LET mid == (lo + hi) \div 2
       IN  IF mid * mid <= x THEN SqrtIn(x, mid, hi) ELSE SqrtIn(x, lo, mid)

\* Math.sqrt(sumSq / size) in units of 0.0001, rounded down
Rms(sumSq, size) == SqrtIn((10000 * sumSq) \div size, 0, 46340)

\* the number of iterations of  for (i = 0; i < length - size; i += hop)
NumFrames(length, size, hop) ==
  IF length - size <= 0 THEN 0 ELSE ((length - size - 1) \div hop) + 1

(***************************************************************************)
(* Tempo: detectTempo                                                      *)
(***************************************************************************)
tempoFrameSize == 1024
tempoHopSize == 512

\* energies[k] for k = 1..n, then onsetStrength: lines 18-32
Energies(data) ==
  [k \in 1..NumFrames(data.length, tempoFrameSize, tempoHopSize) |->
     Rms(SumSq(Frame(data, (k - 1) * tempoHopSize, tempoFrameSize)), tempoFrameSize)]

OnsetStrength(energies) ==
  [i \in 1..(Len(energies) - 1) |-> Max(0, energies[i + 1] - energies[i])]

\* lines 41-53: the score of one candidate bpm.  beatInterval is the rational
\* (60 * sampleRate) / (bpm * hopSize); beat = offset + k * beatInterval.
BeatScore(onsetStrength, sampleRate, bpm) ==
  LET biNum == 60 * sampleRate
      biDen == bpm * tempoHopSize
      n == Len(onsetStrength)
      offsets == {o \in 0..(biNum \div biDen) : o * biDen < biNum}
      beats(o) == {k \in 0..((n * biDen) \div biNum) : o * biDen + k * biNum < n * biDen}
      tempScore(o) ==
        SumOver([k \in beats(o) |-> onsetStrength[((o * biDen + k * biNum) \div biDen) + 1]],
                beats(o))
      scores == {tempScore(o) : o \in offsets} \cup {0}
  IN  CHOOSE s \in scores : \A t \in scores : t <= s

\* number of clicks in the longest buffer tried
MaxClicks == 4

TempoSampleRates == {8000, 44100}

\* silent buffers of several lengths and click tracks at 120 and at 90 BPM
TempoBuffers(sampleRate) ==
  {Clicks(length, 0, 1, 0) : length \in {0, tempoFrameSize, 20 * tempoHopSize}}
  \cup {Clicks(MaxClicks * period, 100, period, 100) :
          period \in {sampleRate \div 2, (2 * sampleRate) \div 3}}
  \cup {Clicks(sampleRate \div 2, 700, sampleRate, 50)}

TempoOptions == {<<60, 200>>, <<130, 200>>, <<100, 100>>, <<60, 110>>}

TempoOthers == <<pitch, onset, qtempo, key, trans, melody, chordgen,
  extract, simplify, quantize>>

TempoInit ==
  \E sr \in TempoSampleRates, o \in TempoOptions :
    tempo \in [pc : {"start"}, data : TempoBuffers(sr), sampleRate : {sr},
               minBpm : {o[1]}, maxBpm : {o[2]}, onsetStrength : {<<>>},
               bpm : {0}, bestBpm : {0}, bestScore : {0}, result : {0}]

\* lines 16-37: the energy envelope, the onset strength, the starting best
TempoEnvelope ==
  /\ tempo.pc = "start"
  /\ tempo' = [tempo EXCEPT !.pc = "search",
                 !.onsetStrength = OnsetStrength(Energies(tempo.data)),
                 !.bpm = tempo.minBpm, !.bestBpm = 120, !.bestScore = 0]
  /\ UNCHANGED TempoOthers

\* one iteration of  for (bpm = minBpm; bpm <= maxBpm; bpm++)
TempoCandidate ==
  /\ tempo.pc = "search"
  /\ tempo.bpm <= tempo.maxBpm
  /\ LET score == BeatScore(tempo.onsetStrength, tempo.sampleRate, tempo.bpm)
     IN  tempo' = [tempo EXCEPT !.bpm = @ + 1,
                     !.bestScore = IF score > tempo.bestScore THEN score ELSE @,
                     !.bestBpm = IF score > tempo.bestScore THEN tempo.bpm ELSE @]
  /\ UNCHANGED TempoOthers

TempoReturn ==
  /\ tempo.pc = "search"
  /\ tempo.bpm > tempo.maxBpm
  /\ tempo' = [tempo EXCEPT !.pc = "done", !.result = tempo.bestBpm]
  /\ UNCHANGED TempoOthers

TempoNext == TempoEnvelope \/ TempoCandidate \/ TempoReturn

InitTempo ==
  /\ TempoInit
  /\ pitch = Idle /\ onset = Idle /\ qtempo = Idle /\ key = Idle
  /\ trans = Idle /\ melody = Idle /\ chordgen = Idle
  /\ extract = Idle /\ simplify = Idle /\ quantize = Idle

SpecTempo == InitTempo /\ [][TempoNext]_vars

\* C3: for every buffer, silent or not, and options with minBpm <= maxBpm,
\* detectTempo returns an integer BPM b with minBpm <= b <= maxBpm.
DetectTempoInRange ==
  tempo.pc = "done" => tempo.result \in tempo.minBpm..tempo.maxBpm

\* what the code does: a buffer with some onset strength gives a BPM of the
\* range, a buffer with none gives 120 whatever the range
DetectTempoInRangeOrDefault ==
  tempo.pc = "done" =>
    IF \E i \in 1..Len(tempo.onsetStrength) : tempo.onsetStrength[i] > 0
    THEN tempo.result \in tempo.minBpm..tempo.maxBpm
    ELSE tempo.result = 120

DetectTempoClickWitness ==
  /\ tempo.pc = "done"
  /\ tempo.bestScore > 0
  /\ tempo.minBpm = 130
  /\ tempo.result > 130

(***************************************************************************)
(* Key: detectKey                                                          *)
(*                                                                         *)
(* Profile weights are in hundredths.  A normalised vector is kept as the  *)
(* vector and its divisor, a correlation as the rational num / den.        *)
(***************************************************************************)
MAJOR_PROFILE == <<635, 223, 348, 233, 438, 409, 252, 519, 239, 366, 229, 288>>
MINOR_PROFILE == <<633, 268, 352, 538, 260, 353, 254, 475, 398, 269, 334, 317>>

KEY_NOTE_NAMES ==
  << <<"C">>, <<"C", "#">>, <<"D">>, <<"D", "#">>, <<"E">>, <<"F">>,
     <<"F", "#">>, <<"G">>, <<"G", "#">>, <<"A">>, <<"A", "#">>, <<"B">> >>

\* the divisor normalize() applies: the sum, or nothing for a sum of zero
NormDivisor(arr) == IF SumSeq(arr) > 0 THEN SumSeq(arr) ELSE 1

\* profile.map((_, i) => profile[(i + shift) % 12]), 1-based
ShiftedProfile(profile, shift) == [i \in 1..12 |-> profile[((i - 1 + shift) % 12) + 1]]

\* lines 28-40 for one profile: sum of normalizedHist[i] * normalizedProfile[i]
KeyCorr(histogram, profile, shift) ==
  LET shifted == ShiftedProfile(profile, shift)
  IN  [num |-> SumSeq([i \in 1..12 |-> histogram[i] * shifted[i]]),
       den |-> NormDivisor(histogram) * NormDivisor(shifted)]

\* a > b for correlations; best is -Infinity until the first candidate
CorrGreater(a, best) == best.den = 0 \/ a.num * best.den > best.num * a.den

MinusInfinity == [num |-> -1, den |-> 0]

\* largest histogram entry tried
MaxWeight == 3

Unit(p, w) == [i \in 1..12 |-> IF i = p THEN w ELSE 0]

KeyHistograms ==
  {[i \in 1..12 |-> 0]}
  \cup {Unit(p, w) : p \in 1..12, w \in 1..MaxWeight}
  \cup {[i \in 1..12 |-> Unit(p, w)[i] + Unit(q, v)[i]] :
          p \in 1..12, q \in 1..12, w \in 1..MaxWeight, v \in 1..MaxWeight}
  \cup {[i \in 1..12 |-> IF i \in {1, 3, 5, 6, 8, 10, 12} THEN MaxWeight ELSE 1]}

KeyOthers == <<pitch, tempo, onset, qtempo, trans, melody, chordgen,
  extract, simplify, quantize>>

KeyInit ==
  key \in [pc : {"loop"}, pitchClassHistogram : KeyHistograms, pass : {1}, shift : {0},
           bestKey : {<<"C">>}, bestCorr : {MinusInfinity}, first : {<<>>}, result : {<<>>}]

\* one iteration of  for (shift = 0; shift < 12; shift++)
KeyCandidate ==
  /\ key.pc = "loop"
  /\ key.shift < 12
  /\ LET majorCorr == KeyCorr(key.pitchClassHistogram, MAJOR_PROFILE, key.shift)
         minorCorr == KeyCorr(key.pitchClassHistogram, MINOR_PROFILE, key.shift)
         majorWins == CorrGreater(majorCorr, key.bestCorr)
         corr1 == IF majorWins THEN majorCorr ELSE key.bestCorr
         key1 == IF majorWins THEN KEY_NOTE_NAMES[key.shift + 1] ELSE key.bestKey
         minorWins == CorrGreater(minorCorr, corr1)
     IN  key' = [key EXCEPT !.shift = @ + 1,
                   !.bestCorr = IF minorWins THEN minorCorr ELSE corr1,
                   !.bestKey = IF minorWins THEN KEY_NOTE_NAMES[key.shift + 1] \o <<"m">>
                               ELSE key1]
  /\ UNCHANGED KeyOthers

KeyReturn ==
  /\ key.pc = "loop"
  /\ key.shift = 12
  /\ key' = [key EXCEPT !.pc = "done", !.result = key.bestKey]
  /\ UNCHANGED KeyOthers

\* the caller shifts the histogram up by one pitch class,
\* h'[(k + 1) mod 12] = h[k], and detects the key again
KeyRotate ==
  /\ key.pc = "done"
  /\ key.pass = 1
  /\ key' = [key EXCEPT !.pc = "loop", !.pass = 2, !.shift = 0, !.first = key.result,
               !.bestKey = <<"C">>, !.bestCorr = MinusInfinity, !.result = <<>>,
               !.pitchClassHistogram =
                  [i \in 1..12 |-> key.pitchClassHistogram[((i + 10) % 12) + 1]]]
  /\ UNCHANGED KeyOthers

KeyNext == KeyCandidate \/ KeyReturn \/ KeyRotate

InitKey ==
  /\ KeyInit
  /\ pitch = Idle /\ tempo = Idle /\ onset = Idle /\ qtempo = Idle
  /\ trans = Idle /\ melody = Idle /\ chordgen = Idle
  /\ extract = Idle /\ simplify = Idle /\ quantize = Idle

SpecKey == InitKey /\ [][KeyNext]_vars

IsMinorKey(label) == label # <<>> /\ label[Len(label)] = "m"

KeyTonic(label) == IF IsMinorKey(label) THEN SubSeq(label, 1, Len(label) - 1) ELSE label

\* the (tonic, mode) candidates that attain the best score
BestCandidates(histogram) ==
  LET cands == (0..11) \X {"major", "minor"}
      corr(c) == KeyCorr(histogram, IF c[2] = "major" THEN MAJOR_PROFILE ELSE MINOR_PROFILE, c[1])
  IN  {c \in cands : \A d \in cands : ~CorrGreater(corr(d), corr(c))}

\* C4: when the histogram has a unique best-scoring candidate and is shifted
\* up by one pitch class, the detected mode is unchanged and the detected
\* tonic moves up by one semitone, the direction of the shift.
KeyFollowsRotation ==
  (key.pc = "done" /\ key.pass = 2 /\ Cardinality(BestCandidates(key.pitchClassHistogram)) = 1)
    => /\ IsMinorKey(key.result) = IsMinorKey(key.first)
       /\ IndexOf(KEY_NOTE_NAMES, KeyTonic(key.result))
            = (IndexOf(KEY_NOTE_NAMES, KeyTonic(key.first)) + 1) % 12

\* what the code does: the mode is kept and the tonic moves one semitone down
KeyOpposesRotation ==
  (key.pc = "done" /\ key.pass = 2 /\ Cardinality(BestCandidates(key.pitchClassHistogram)) = 1)
    => /\ IsMinorKey(key.result) = IsMinorKey(key.first)
       /\ IndexOf(KEY_NOTE_NAMES, KeyTonic(key.result))
            = (IndexOf(KEY_NOTE_NAMES, KeyTonic(key.first)) + 11) % 12

(***************************************************************************)
(* Key: getKeyTransposition and getChordNameInKey                          *)
(***************************************************************************)
\* String.prototype.replace(pattern, "") with a string pattern: the first
\* occurrence is removed
ReplaceFirst(s, pattern) ==
  LET n == Len(pattern)
      hits == {k \in 1..(Len(s) - n + 1) : SubSeq(s, k, k + n - 1) = pattern}
  IN  IF hits = {} THEN s
      ELSE LET k == CHOOSE h \in hits : \A g \in hits : h <= g
           IN  SubSeq(s, 1, k - 1) \o SubSeq(s, k + n, Len(s))

noteToSemitone ==
  << <<<<"C">>, 0>>, <<<<"C", "#">>, 1>>, <<<<"C", "#", "/", "D", "b">>, 1>>, <<<<"D", "b">>, 1>>,
     <<<<"D">>, 2>>, <<<<"D", "#">>, 3>>, <<<<"D", "#", "/", "E", "b">>, 3>>, <<<<"E", "b">>, 3>>,
     <<<<"E">>, 4>>,
     <<<<"F">>, 5>>, <<<<"F", "#">>, 6>>, <<<<"F", "#", "/", "G", "b">>, 6>>, <<<<"G", "b">>, 6>>,
     <<<<"G">>, 7>>, <<<<"G", "#">>, 8>>, <<<<"G", "#", "/", "A", "b">>, 8>>, <<<<"A", "b">>, 8>>,
     <<<<"A">>, 9>>, <<<<"A", "#">>, 10>>, <<<<"A", "#", "/", "B", "b">>, 10>>, <<<<"B", "b">>, 10>>,
     <<<<"B">>, 11>> >>

\* noteToSemitone[root] ?? 0
SemitoneOf(root) ==
  IF \E k \in 1..Len(noteToSemitone) : noteToSemitone[k][1] = root
  THEN noteToSemitone[CHOOSE k \in 1..Len(noteToSemitone) : noteToSemitone[k][1] = root][2]
  ELSE 0

KeyRoot(keyLabel) ==
  ReplaceFirst(ReplaceFirst(ReplaceFirst(ReplaceFirst(ReplaceFirst(ReplaceFirst(keyLabel,
    <<"m">>), <<"/", "D", "b">>), <<"/", "E", "b">>), <<"/", "G", "b">>),
    <<"/", "A", "b">>), <<"/", "B", "b">>)

\* fromSemi - toSemi: the distance taken the other way round
getKeyTranspositionReversed(fromKey, toKey) ==
  SemitoneOf(KeyRoot(fromKey)) - SemitoneOf(KeyRoot(toKey))

getKeyTransposition(fromKey, toKey) == SemitoneOf(KeyRoot(toKey)) - SemitoneOf(KeyRoot(fromKey))

\* the length of group 1 of /^([A-G]#?)(.*)$/, or 0 for no match
ChordRootLen(baseName) ==
  IF baseName = <<>> \/ baseName[1] \notin {"A", "B", "C", "D", "E", "F", "G"} THEN 0
  ELSE IF Len(baseName) >= 2 /\ baseName[2] = "#" THEN 2
  ELSE 1

getChordNameInKey(baseName, semitones) ==
  LET k == ChordRootLen(baseName)
      rootIndex == IndexOf(KEY_NOTE_NAMES, SubSeq(baseName, 1, k))
      newIndex == (JsRem(rootIndex + semitones, 12) + 12) % 12
  IN  IF k = 0 \/ rootIndex = -1 THEN baseName
      ELSE KEY_NOTE_NAMES[newIndex + 1] \o SubSeq(baseName, k + 1, Len(baseName))

\* the 12 sharp-spelled tonics, major and minor
KeyLabels ==
  {KEY_NOTE_NAMES[k] : k \in 1..12} \cup {KEY_NOTE_NAMES[k] \o <<"m">> : k \in 1..12}

TransOthers == <<pitch, tempo, onset, qtempo, key, melody, chordgen,
  extract, simplify, quantize>>

TransInit ==
  trans \in [pc : {"start"}, fromKey : KeyLabels, toKey : KeyLabels,
             semitones : {0}, name : {<<>>}]

TransDistance ==
  /\ trans.pc = "start"
  /\ trans' = [trans EXCEPT !.pc = "distance",
                 !.semitones = getKeyTransposition(trans.fromKey, trans.toKey)]
  /\ UNCHANGED TransOthers

TransName ==
  /\ trans.pc = "distance"
  /\ trans' = [trans EXCEPT !.pc = "done",
                 !.name = getChordNameInKey(KeyTonic(trans.fromKey), trans.semitones)]
  /\ UNCHANGED TransOthers

TransNext == TransDistance \/ TransName

InitTrans ==
  /\ TransInit
  /\ pitch = Idle /\ tempo = Idle /\ onset = Idle /\ qtempo = Idle
  /\ key = Idle /\ melody = Idle /\ chordgen = Idle
  /\ extract = Idle /\ simplify = Idle /\ quantize = Idle

SpecTrans == InitTrans /\ [][TransNext]_vars

\* C8: for sharp-spelled key labels a and b, major or minor,
\* getChordNameInKey(tonic(a), getKeyTransposition(a, b)) = tonic(b), also for
\* a negative distance; getKeyTransposition("C", "G") = 7 and
\* getChordNameInKey("C", 7) = "G".
TranspositionReachesTonic ==
  /\ trans.pc = "done" => trans.name = KeyTonic(trans.toKey)
  /\ (trans.pc = "done" /\ trans.fromKey = <<"C">> /\ trans.toKey = <<"G">>)
       => (trans.semitones = 7 /\ trans.name = <<"G">>)

TranspositionDownWitness ==
  /\ trans.pc = "done"
  /\ trans.fromKey = <<"A", "#", "m">>
  /\ trans.toKey = <<"C", "#">>
  /\ trans.semitones = -9
  /\ trans.name = <<"C", "#">>

(***************************************************************************)
(* Pitch: detectPitch                                                      *)
(***************************************************************************)
\* sum of frame[i] * frame[i + period] over i < frame.length - period
Autocorr(frame, period) ==
  LET starts == {a \in DOMAIN frame : (a + period) \in DOMAIN frame}
  IN  SumOver([a \in starts |-> frame[a] * frame[a + period]], starts)

\* the loop of lines 91-100 over the periods lo .. hi - 1, run in order (the
\* range is split in two halves, the first half finished before the second
\* starts; bestPeriod is never negative); acc is <<maxCorr, bestPeriod>>
RECURSIVE PeriodLoopGe(_, _, _, _)
PeriodLoopGe(frame, lo, hi, acc) ==
  IF lo >= hi THEN acc
  ELSE IF hi = lo + 1
  THEN LET corr == Autocorr(frame, lo)
       IN  IF corr >= acc[1] THEN <<corr, lo>> ELSE acc
  ELSE LET mid == (lo + hi) \div 2
           half == PeriodLoopGe(frame, lo, mid, acc)
       IN  IF half[2] >= 0 THEN PeriodLoopGe(frame, mid, hi, half) ELSE half

RECURSIVE PeriodLoop(_, _, _, _)
PeriodLoop(frame, lo, hi, acc) ==
  IF lo >= hi THEN acc
  ELSE IF hi = lo + 1
  THEN LET corr == Autocorr(frame, lo)
       IN  IF corr > acc[1] THEN <<corr, lo>> ELSE acc
  ELSE LET mid == (lo + hi) \div 2
           half == PeriodLoop(frame, lo, mid, acc)
       IN  IF half[2] >= 0 THEN PeriodLoop(frame, mid, hi, half) ELSE half

detectPitchGe(frame, sampleRate) ==
  LET bestPeriod == PeriodLoopGe(frame, sampleRate \div 1000, sampleRate \div 80, <<0, 0>>)[2]
  IN  IF bestPeriod > 0 THEN (1000 * sampleRate) \div bestPeriod ELSE 0

\* the pitch in millihertz, with the default options minFreq 80, maxFreq 1000
detectPitch(frame, sampleRate) ==
  LET minPeriod == sampleRate \div 1000
      maxPeriod == sampleRate \div 80
      bestPeriod == PeriodLoop(frame, minPeriod, maxPeriod, <<0, 0>>)[2]
  IN  IF bestPeriod > 0 THEN (1000 * sampleRate) \div bestPeriod ELSE 0

(***************************************************************************)
(* Melody: extractMelody                                                   *)
(*                                                                         *)
(* noteStartTime and the time and duration of a note are in samples.       *)
(***************************************************************************)
melodyHopSize == 2048
melodyFrameSize == 4096

\* lines 41-49, 67-75 and 83-91: the open note, closed at sample endSample,
\* is pushed when it lasted longer than minNoteDuration / 1000 seconds
ClosedNotesSwapped(m, endSample) ==
  IF m.lastNote # <<>> /\ m.lastNote # Rest
  THEN LET duration == m.noteStartTime - endSample
       IN  IF duration * 1000 > m.minNoteDuration * m.sampleRate
           THEN Append(m.notes, [note |-> m.lastNote, time |-> m.noteStartTime,
                                 duration |-> duration])
           ELSE m.notes
  ELSE m.notes

ClosedNotes(m, endSample) ==
  IF m.lastNote # <<>> /\ m.lastNote # Rest
  THEN LET duration == endSample - m.noteStartTime
       IN  IF duration * 1000 > m.minNoteDuration * m.sampleRate
           THEN Append(m.notes, [note |-> m.lastNote, time |-> m.noteStartTime,
                                 duration |-> duration])
           ELSE m.notes
  ELSE m.notes

\* notes.slice(-64)
LimitNotesLast(notes) == SubSeq(notes, Max(1, Len(notes) - 63), Len(notes))

\* notes.slice(0, 64)
LimitNotes(notes) == SubSeq(notes, 1, Min(64, Len(notes)))

\* Buffers are built from blocks of one hop: "z" silence, "i" one impulse,
\* "a" and "b" two impulses one period apart (400 Hz and 200 Hz), "q" a
\* quiet "a".
BlockKinds == {"z", "i", "a", "b", "q"}

BlockImpulses(kind, start, sampleRate) ==
  CASE kind = "z" -> {}
    [] kind = "i" -> {<<start + 10, 100>>}
    [] kind = "a" -> {<<start + 10, 100>>, <<start + 10 + (sampleRate \div 400), 100>>}
    [] kind = "b" -> {<<start + 10, 100>>, <<start + 10 + (sampleRate \div 200), 100>>}
    [] kind = "q" -> {<<start + 10, 20>>, <<start + 10 + (sampleRate \div 400), 20>>}

BlockBuffer(motif, blocks, sampleRate) ==
  LET imps == UNION {BlockImpulses(motif[(k % Len(motif)) + 1], k * melodyHopSize, sampleRate) :
                       k \in 0..(blocks - 1)}
  IN  [length |-> blocks * melodyHopSize,
       imp |-> [j \in {p[1] : p \in imps} |-> (CHOOSE p \in imps : p[1] = j)[2]]]

\* number of hop-sized blocks of the longest buffer tried
MaxBlocks == 102

Motifs ==
  {<<k>> : k \in BlockKinds} \cup {<<k, "z">> : k \in BlockKinds \ {"z"}}
  \cup {<<"a", "b">>, <<"a", "i">>, <<"a", "b", "z">>, <<"a", "i", "i", "b">>,
        <<"q", "a", "z">>, <<"a", "z", "z", "i">>}

\* <<pitchSensitivity, minNoteDuration>>; <<50, 100>> are the defaults
MelodyParams == {<<50, 100>>, <<0, 0>>, <<1, 300>>, <<100, -1000>>}

\* <<sampleRate, motif, blocks, <<pitchSensitivity, minNoteDuration>>>>: short
\* buffers of every motif, long buffers of a few, some at 44100 Hz, and
\* silence under every pitchSensitivity
MelodyConfigs ==
  ({8000} \X Motifs \X {2, 9} \X MelodyParams)
  \cup ({8000} \X {<<"z">>, <<"a", "b", "z">>, <<"a", "i", "i", "b">>} \X {MaxBlocks}
          \X MelodyParams)
  \cup ({44100} \X {<<"z">>, <<"a">>, <<"a", "b", "z">>} \X {9} \X MelodyParams)
  \cup ({8000} \X {<<"z">>} \X {9} \X {<<ps, 100>> : ps \in 0..100})

MelodyOthers == <<pitch, tempo, onset, qtempo, key, trans, chordgen,
  extract, simplify, quantize>>

MelodyInit ==
  \E c \in MelodyConfigs :
    melody = [pc |-> "loop", data |-> BlockBuffer(c[2], c[3], c[1]), sampleRate |-> c[1],
              pitchSensitivity |-> c[4][1], minNoteDuration |-> c[4][2],
              i |-> 0, lastNote |-> <<>>, noteStartTime |-> 0, notes |-> <<>>,
              pitchClassHistogram |-> [k \in 1..12 |-> 0],
              result |-> [notes |-> <<>>, pitchClassHistogram |-> <<>>]]

\* rms in units of 0.0001; rmsThreshold = 0.01 * pitchSensitivity / 100 is
\* pitchSensitivity in those units
FrameRms(m) == Rms(SumSq(Frame(m.data, m.i, melodyFrameSize)), melodyFrameSize)

\* lines 40-53: a frame below the threshold closes the open note
MelodySilentFrame ==
  /\ melody.pc = "loop"
  /\ melody.i < melody.data.length - melodyFrameSize
  /\ FrameRms(melody) < melody.pitchSensitivity
  /\ melody' = [melody EXCEPT !.i = @ + melodyHopSize,
                  !.notes = ClosedNotes(melody, melody.i),
                  !.lastNote = IF melody.lastNote # <<>> /\ melody.lastNote # Rest
                               THEN <<>> ELSE @]
  /\ UNCHANGED MelodyOthers

\* lines 55-79: pitch, histogram and note change of a frame at or above it
MelodyPitchedFrame ==
  /\ melody.pc = "loop"
  /\ melody.i < melody.data.length - melodyFrameSize
  /\ ~(FrameRms(melody) < melody.pitchSensitivity)
  /\ LET frame == Frame(melody.data, melody.i, melodyFrameSize)
         pitchHz == detectPitch(frame, melody.sampleRate)
         note == frequencyToNote(pitchHz)
         pitchClass == frequencyToPitchClass(pitchHz)
         changed == note # Rest /\ note # melody.lastNote
     IN  melody' = [melody EXCEPT !.i = @ + melodyHopSize,
                      !.pitchClassHistogram =
                         IF pitchClass >= 0
                         THEN [@ EXCEPT ![pitchClass + 1] = @ + FrameRms(melody)]
                         ELSE @,
                      !.notes = IF changed THEN ClosedNotes(melody, melody.i) ELSE @,
                      !.lastNote = IF changed THEN note ELSE @,
                      !.noteStartTime = IF changed THEN melody.i ELSE @]
  /\ UNCHANGED MelodyOthers

\* lines 82-95: the last note, the cap, the return
MelodyReturn ==
  /\ melody.pc = "loop"
  /\ ~(melody.i < melody.data.length - melodyFrameSize)
  /\ LET notes == ClosedNotes(melody, melody.data.length)
     IN  melody' = [melody EXCEPT !.pc = "done", !.notes = notes,
                      !.result = [notes |-> LimitNotes(notes),
                                  pitchClassHistogram |-> melody.pitchClassHistogram]]
  /\ UNCHANGED MelodyOthers

MelodyNext == MelodySilentFrame \/ MelodyPitchedFrame \/ MelodyReturn

InitMelody ==
  /\ MelodyInit
  /\ pitch = Idle /\ tempo = Idle /\ onset = Idle /\ qtempo = Idle
  /\ key = Idle /\ trans = Idle /\ chordgen = Idle
  /\ extract = Idle /\ simplify = Idle /\ quantize = Idle

SpecMelody == InitMelody /\ [][MelodyNext]_vars

\* C1: extractMelody returns at most 64 notes; when more than 64 segmented
\* notes pass the minimum-duration rule it returns exactly the first 64 of
\* them, in segmentation order.
MelodyCappedAtFirst64 ==
  melody.pc = "done" =>
    /\ Len(melody.result.notes) <= 64
    /\ Len(melody.notes) > 64 => melody.result.notes = SubSeq(melody.notes, 1, 64)
    /\ Len(melody.notes) <= 64 => melody.result.notes = melody.notes

MelodyCapWitness ==
  /\ melody.pc = "done"
  /\ Len(melody.notes) > 64
  /\ Len(melody.result.notes) = 64
  /\ melody.notes[65].note # melody.notes[64].note

\* C2: an all-zero buffer, whatever its length, the sample rate and the
\* parameters, gives no notes and a histogram of twelve zeros.
SilenceGivesNothing ==
  (melody.pc = "done" /\ DOMAIN melody.data.imp = {}) =>
    /\ melody.result.notes = <<>>
    /\ melody.result.pitchClassHistogram = [k \in 1..12 |-> 0]

\* the frames of an all-zero buffer passed the threshold 0 and went through
\* detectPitch
SilenceWitness ==
  /\ melody.pc = "done"
  /\ DOMAIN melody.data.imp = {}
  /\ melody.pitchSensitivity = 0
  /\ melody.i >= MaxBlocks * melodyHopSize - melodyFrameSize
  /\ melody.result.notes = <<>>

\* C10: the returned notes are in non-decreasing start-time order, each has
\* a strictly positive duration, and none is labelled with the rest sentinel.
MelodyNotesWellFormed ==
  melody.pc = "done" =>
    LET notes == melody.result.notes
    IN  /\ \A k \in 1..Len(notes) : notes[k].duration > 0 /\ notes[k].note # Rest
        /\ \A k \in 1..(Len(notes) - 1) : notes[k].time <= notes[k + 1].time

\* several notes, one of them held across a frame that mapped to rest
MelodyNotesWitness ==
  /\ melody.pc = "done"
  /\ Len(melody.result.notes) >= 3
  /\ melody.minNoteDuration < 0
  /\ \E k \in 1..Len(melody.result.notes) :
       melody.result.notes[k].duration > 2 * melodyHopSize

(***************************************************************************)
(* Chords: generateChordsFromNotes                                         *)
(*                                                                         *)
(* Note times are integers in quarter seconds, so chordDuration =          *)
(* beatsPerBar * 0.5 seconds is 2 * beatsPerBar.                           *)
(***************************************************************************)
\* timeSignature.split("/")[0]
BeforeSlash(s) ==
  IF \E k \in 1..Len(s) : s[k] = "/"
  THEN SubSeq(s, 1, (CHOOSE k \in 1..Len(s) : s[k] = "/" /\ \A j \in 1..(k - 1) : s[j] # "/") - 1)
  ELSE s

\* lines 97-103: the Map from window start to labels, in insertion order, as a
\* sequence of <<chordTime, labels>>
RECURSIVE GroupNotes(_, _, _)
GroupNotes(notes, chordDuration, chordMap) ==
  IF notes = <<>> THEN chordMap
  ELSE LET note == Head(notes)
           chordTime == (note.time \div chordDuration) * chordDuration
           added == IF \E k \in 1..Len(chordMap) : chordMap[k][1] = chordTime
                    THEN chordMap ELSE Append(chordMap, <<chordTime, <<>>>>)
           at == CHOOSE k \in 1..Len(added) : added[k][1] = chordTime
       IN  GroupNotes(Tail(notes), chordDuration,
                      [added EXCEPT ![at] = <<chordTime, Append(added[at][2], note.note)>>])

\* [...new Set(labels)]: the first occurrence of each label, in order
RECURSIVE Unique(_, _)
Unique(labels, seen) ==
  IF labels = <<>> THEN seen
  ELSE IF \E k \in 1..Len(seen) : seen[k] = Head(labels) THEN Unique(Tail(labels), seen)
  ELSE Unique(Tail(labels), Append(seen, Head(labels)))

\* label.replace(/\d+$/, "")
RECURSIVE StripTrailingDigits(_)
StripTrailingDigits(s) ==
  IF s # <<>> /\ IsDigit(s[Len(s)]) THEN StripTrailingDigits(SubSeq(s, 1, Len(s) - 1)) ELSE s

\* lines 106-114
ChordOf(entry, chordDuration) ==
  LET uniqueNotes == Unique(entry[2], <<>>)
      stripped == IF uniqueNotes = <<>> THEN <<>> ELSE StripTrailingDigits(uniqueNotes[1])
  IN  [notes |-> SubSeq(uniqueNotes, 1, Min(4, Len(uniqueNotes))),
       name |-> IF stripped = <<>> THEN <<"C">> ELSE stripped,
       time |-> entry[1],
       duration |-> chordDuration]

\* chords.sort((a, b) => a.time - b.time): a stable sort
RECURSIVE SortByTime(_)
SortByTime(chords) ==
  IF chords = <<>> THEN <<>>
  ELSE LET k == CHOOSE i \in 1..Len(chords) :
                  /\ \A j \in 1..Len(chords) : chords[i].time <= chords[j].time
                  /\ \A j \in 1..(i - 1) : chords[j].time # chords[i].time
       IN  <<chords[k]>> \o SortByTime(SubSeq(chords, 1, k - 1) \o SubSeq(chords, k + 1, Len(chords)))

generateChordsFromNotesUnsorted(notes, timeSignature) ==
  IF notes = <<>> THEN <<>>
  ELSE LET chordDuration == 2 * ParseNat(BeforeSlash(timeSignature))
           chordMap == GroupNotes(notes, chordDuration, <<>>)
       IN  [k \in 1..Len(chordMap) |-> ChordOf(chordMap[k], chordDuration)]

generateChordsFromNotes(notes, timeSignature) ==
  IF notes = <<>> THEN <<>>
  ELSE LET beatsPerBar == ParseNat(BeforeSlash(timeSignature))
           chordDuration == 2 * beatsPerBar
           chordMap == GroupNotes(notes, chordDuration, <<>>)
       IN  SortByTime([k \in 1..Len(chordMap) |-> ChordOf(chordMap[k], chordDuration)])

\* longest note sequence tried
MaxChordNotes == 5

ChordLabels ==
  << <<"c", "4">>, <<"e", "4">>, <<"g", "4">>, <<"b", "4">>, <<"d", "5">>,
     <<"f", "5">>, <<"a", "5">>, <<"c", "6">> >>

\* label sequences of length n: all labels distinct, or one label repeated once
LabelPatterns(n) ==
  {[k \in 1..n |-> ChordLabels[k]]}
  \cup {[k \in 1..n |-> IF k = j THEN ChordLabels[i] ELSE ChordLabels[k]] :
          i \in 1..n, j \in 1..n}

ChordTimes == {0, 7, 8}

\* time signatures with their beats per bar
ChordSignatures ==
  {<<<<"4", "/", "4">>, 4>>, <<<<"1", "/", "4">>, 1>>, <<<<"6", "/", "8">>, 6>>}

ChordgenOthers == <<pitch, tempo, onset, qtempo, key, trans, melody,
  extract, simplify, quantize>>

ChordgenInit ==
  \E n \in 1..MaxChordNotes, sig \in ChordSignatures :
    \E labels \in LabelPatterns(n), times \in [1..n -> ChordTimes] :
      chordgen = [pc |-> "start",
                  notes |-> [k \in 1..n |-> [note |-> labels[k], time |-> times[k]]],
                  timeSignature |-> sig[1], result |-> <<>>]

ChordgenGenerate ==
  /\ chordgen.pc = "start"
  /\ chordgen' = [chordgen EXCEPT !.pc = "done",
                    !.result = generateChordsFromNotes(chordgen.notes, chordgen.timeSignature)]
  /\ UNCHANGED ChordgenOthers

ChordgenNext == ChordgenGenerate

InitChordgen ==
  /\ ChordgenInit
  /\ pitch = Idle /\ tempo = Idle /\ onset = Idle /\ qtempo = Idle
  /\ key = Idle /\ trans = Idle /\ melody = Idle
  /\ extract = Idle /\ simplify = Idle /\ quantize = Idle

SpecChordgen == InitChordgen /\ [][ChordgenNext]_vars

BeatsOf(timeSignature) == (CHOOSE sig \in ChordSignatures : sig[1] = timeSignature)[2]

\* the positions of the notes of the window starting at time whose label
\* did not occur earlier in that window
FirstInWindow(notes, time, width) ==
  LET inWindow(k) == time <= notes[k].time /\ notes[k].time < time + width
  IN  {k \in 1..Len(notes) :
         /\ inWindow(k)
         /\ \A j \in 1..(k - 1) : inWindow(j) => notes[j].note # notes[k].note}

\* C7: one chord per non-empty window of width beatsPerBar * 0.5 s, in
\* strictly increasing start time, each of that duration; its notes are the
\* distinct labels of exactly the input notes of its window, in
\* first-encounter order, cut to the first 4.  c4 and e4 at time 0 in 4/4
\* give one chord at 0 with notes [c4, e4] and duration 2.0.
ChordPerWindow ==
  chordgen.pc = "done" =>
    LET notes == chordgen.notes
        result == chordgen.result
        width == 2 * BeatsOf(chordgen.timeSignature)
        windows == {notes[k].time \div width : k \in 1..Len(notes)}
    IN  /\ Len(result) = Cardinality(windows)
        /\ {result[c].time : c \in 1..Len(result)} = {w * width : w \in windows}
        /\ \A c \in 1..(Len(result) - 1) : result[c].time < result[c + 1].time
        /\ \A c \in 1..Len(result) :
             LET first == FirstInWindow(notes, result[c].time, width)
             IN  /\ result[c].duration = width
                 /\ Len(result[c].notes) = Min(4, Cardinality(first))
                 /\ \A m \in 1..Len(result[c].notes) :
                      result[c].notes[m] =
                        notes[CHOOSE k \in first : Cardinality({j \in first : j < k}) = m - 1].note
        /\ (notes = <<[note |-> <<"c", "4">>, time |-> 0], [note |-> <<"e", "4">>, time |-> 0]>>
              /\ chordgen.timeSignature = <<"4", "/", "4">>)
             => (/\ Len(result) = 1
                 /\ result[1].time = 0
                 /\ result[1].notes = << <<"c", "4">>, <<"e", "4">> >>
                 /\ result[1].duration = 8)

\* notes given out of time order, three windows, the first with a repeated label
ChordWindowsWitness ==
  /\ chordgen.pc = "done"
  /\ Len(chordgen.result) = 3
  /\ chordgen.notes[1].time = 8
  /\ Len(chordgen.notes) = 5
  /\ Len(chordgen.result[1].notes) = 2
  /\ chordgen.notes[5].note = chordgen.notes[2].note

\* five distinct labels in one window: the chord keeps the first four
ChordCapWitness ==
  /\ chordgen.pc = "done"
  /\ Len(chordgen.result) = 1
  /\ Cardinality({chordgen.notes[k].note : k \in 1..Len(chordgen.notes)}) = 5
  /\ chordgen.result[1].notes = [k \in 1..4 |-> chordgen.notes[k].note]

(***************************************************************************)
(* Melody: note boundaries in the frame loop                               *)
(***************************************************************************)
\* lines 56-57: the note a frame at or above the threshold maps to
MappedNote(m) ==
  frequencyToNote(detectPitch(Frame(m.data, m.i, melodyFrameSize), m.sampleRate))

\* an iteration of the frame loop on a frame at or above the threshold, with
\* a note open
OpenNoteAtLoudFrame(m) ==
  /\ m.pc = "loop"
  /\ m.i < m.data.length - melodyFrameSize
  /\ ~(FrameRms(m) < m.pitchSensitivity)
  /\ m.lastNote # <<>> /\ m.lastNote # Rest

\* C11: in the frame loop, a frame at or above the threshold whose mapped
\* note differs from the open note (the rest sentinel included) closes the
\* open note at that frame's time, emitting it if and only if it lasted
\* longer than minNoteDuration / 1000 seconds, so the open note does not
\* continue past that frame.
MelodyBoundaryAtEveryChange ==
  [][(OpenNoteAtLoudFrame(melody) /\ MappedNote(melody) # melody.lastNote)
       => /\ melody'.notes = ClosedNotes(melody, melody.i)
          /\ ~(melody'.lastNote = melody.lastNote
                 /\ melody'.noteStartTime = melody.noteStartTime)]_vars

\* what the frame loop does instead: the open note is closed by a frame that
\* maps to another note, and continues across one that maps to rest
MelodyBoundaryAtEveryNote ==
  [][OpenNoteAtLoudFrame(melody)
       => IF MappedNote(melody) # melody.lastNote /\ MappedNote(melody) # Rest
          THEN /\ melody'.notes = ClosedNotes(melody, melody.i)
               /\ melody'.lastNote = MappedNote(melody)
               /\ melody'.noteStartTime = melody.i
          ELSE /\ melody'.notes = melody.notes
               /\ melody'.lastNote = melody.lastNote
               /\ melody'.noteStartTime = melody.noteStartTime]_vars

(***************************************************************************)
(* Key: a histogram with one occupied pitch class                          *)
(***************************************************************************)
\* the occupied pitch class (0..11) of a histogram with exactly one, or -1
SinglePitchClass(histogram) ==
  IF Cardinality({i \in 1..12 : histogram[i] > 0}) = 1
  THEN (CHOOSE i \in 1..12 : histogram[i] > 0) - 1
  ELSE -1

\* C12: for a histogram with all its energy in one pitch class p, detectKey
\* returns the major key whose tonic is pitch class p.
KeySingleClassIsTonic ==
  (key.pc = "done" /\ SinglePitchClass(key.pitchClassHistogram) >= 0)
    => key.result = KEY_NOTE_NAMES[SinglePitchClass(key.pitchClassHistogram) + 1]

\* what detectKey returns instead: the major key on pitch class (12 - p) % 12
KeySingleClassIsMirrored ==
  (key.pc = "done" /\ SinglePitchClass(key.pitchClassHistogram) >= 0)
    => key.result = KEY_NOTE_NAMES[((12 - SinglePitchClass(key.pitchClassHistogram)) % 12) + 1]

(***************************************************************************)
(* Pitch: transposeNote                                                    *)
(***************************************************************************)
transposeNote(note, semitones) ==
  LET k == NoteMatch(note)
      octave == ParseNat(SubSeq(note, k + 1, Len(note)))
      noteIndex == IndexOf(NOTE_NAMES, SubSeq(note, 1, k))
      newIndex == noteIndex + semitones
      newNoteIndex == (JsRem(newIndex, 12) + 12) % 12
      octaveChange == newIndex \div 12
  IN  IF k = 0 \/ noteIndex = -1 THEN note
      ELSE NOTE_NAMES[newNoteIndex + 1] \o IntToString(octave + octaveChange)

(***************************************************************************)
(* Chords: extractChords                                                   *)
(*                                                                         *)
(* Sample amplitudes of these buffers are integers in eighths (8 is 1.0),  *)
(* which are exact as 32-bit floats, so the energy of a segment is exact   *)
(* in eighths and energy * 1000 is the integer 125 * (energy in eighths).  *)
(* The duration argument is the rational num / den seconds.                *)
(***************************************************************************)
\* String.prototype.includes
Includes(s, pattern) ==
  \E k \in 1..(Len(s) - Len(pattern) + 1) : SubSeq(s, k, k + Len(pattern) - 1) = pattern

majorChordTemplates ==
  << [notes |-> << <<"c", "3">>, <<"e", "3">>, <<"g", "3">> >>, name |-> <<"C">>, degree |-> "I"],
     [notes |-> << <<"d", "3">>, <<"f", "3">>, <<"a", "3">> >>, name |-> <<"D", "m">>, degree |-> "ii"],
     [notes |-> << <<"e", "3">>, <<"g", "3">>, <<"b", "3">> >>, name |-> <<"E", "m">>, degree |-> "iii"],
     [notes |-> << <<"f", "3">>, <<"a", "3">>, <<"c", "4">> >>, name |-> <<"F">>, degree |-> "IV"],
     [notes |-> << <<"g", "3">>, <<"b", "3">>, <<"d", "4">> >>, name |-> <<"G">>, degree |-> "V"],
     [notes |-> << <<"a", "3">>, <<"c", "4">>, <<"e", "4">> >>, name |-> <<"A", "m">>, degree |-> "vi"] >>

minorChordTemplates ==
  << [notes |-> << <<"a", "2">>, <<"c", "3">>, <<"e", "3">> >>, name |-> <<"A", "m">>, degree |-> "i"],
     [notes |-> << <<"b", "2">>, <<"d", "3">>, <<"f", "3">> >>, name |-> <<"B", "d", "i", "m">>, degree |-> "ii°"],
     [notes |-> << <<"c", "3">>, <<"e", "3">>, <<"g", "3">> >>, name |-> <<"C">>, degree |-> "III"],
     [notes |-> << <<"d", "3">>, <<"f", "3">>, <<"a", "3">> >>, name |-> <<"D", "m">>, degree |-> "iv"],
     [notes |-> << <<"e", "3">>, <<"g", "3">>, <<"b", "3">> >>, name |-> <<"E", "m">>, degree |-> "v"],
     [notes |-> << <<"f", "3">>, <<"a", "3">>, <<"c", "4">> >>, name |-> <<"F">>, degree |-> "VI"],
     [notes |-> << <<"g", "3">>, <<"b", "3">>, <<"d", "4">> >>, name |-> <<"G">>, degree |-> "VII"] >>

\* lines 20, 42-51: the templates transposed to the detected key
TransposedChords(detectedKey) ==
  LET isMinor == Includes(detectedKey, <<"m">>) /\ ~Includes(detectedKey, <<"m", "a", "j">>)
      baseKey == IF isMinor THEN <<"A", "m">> ELSE <<"C">>
      transposition == getKeyTransposition(baseKey, detectedKey)
      templates == IF isMinor THEN minorChordTemplates ELSE majorChordTemplates
  IN  [c \in 1..Len(templates) |->
         [notes |-> [n \in 1..Len(templates[c].notes) |->
                       transposeNote(templates[c].notes[n], transposition)],
          name |-> getChordNameInKey(templates[c].name, transposition),
          degree |-> templates[c].degree]]

\* the sum of Math.abs over the samples lo .. hi - 1 of the buffer, in eighths
SpanEnergy(data, lo, hi) ==
  LET inside == {j \in DOMAIN data.imp : j >= lo /\ j < hi}
  IN  SumOver([j \in inside |-> Abs(data.imp[j])], inside)

\* longest buffer tried, in half seconds
MaxHalfSeconds == 37

ExtractSampleRates == {8000, 44100}

ExtractKeys == {<<"C">>, <<"A", "m">>, <<"F", "#">>, <<"C", "m", "a", "j">>}

\* buffers of h half seconds: silent, one impulse on a quarter-second mark,
\* or two impulses three quarters of a second apart
ExtractBuffers(sampleRate) ==
  LET quarter == sampleRate \div 4 IN
  {[length |-> h * 2 * quarter, imp |-> << >>] : h \in 0..MaxHalfSeconds}
  \cup {[length |-> h * 2 * quarter, imp |-> [j \in {q * quarter} |-> a]] :
          h \in 1..MaxHalfSeconds, q \in 0..(2 * MaxHalfSeconds - 1), a \in {1, -3}}
  \cup {[length |-> h * 2 * quarter,
         imp |-> [j \in {q * quarter, (q + 3) * quarter} |-> IF j = q * quarter THEN 1 ELSE 2]] :
          h \in 1..MaxHalfSeconds, q \in 0..(2 * MaxHalfSeconds - 4)}

ExtractOthers == <<pitch, tempo, onset, qtempo, key, trans, melody, chordgen,
  simplify, quantize>>

\* the call analyzeAudio makes: duration = data.length / sampleRate
ExtractInit ==
  \E sampleRate \in ExtractSampleRates, detectedKey \in ExtractKeys :
    \E data \in {b \in ExtractBuffers(sampleRate) : \A j \in DOMAIN b.imp : j < b.length} :
      extract = [pc |-> "start", data |-> data, sampleRate |-> sampleRate,
                 duration |-> [num |-> data.length, den |-> sampleRate],
                 detectedKey |-> detectedKey, transposedChords |-> <<>>,
                 numSegments |-> 0, samplesPerSegment |-> 0, i |-> 0,
                 energies |-> <<>>, chords |-> <<>>, result |-> <<>>]

\* lines 18-56
ExtractSetup ==
  /\ extract.pc = "start"
  /\ LET segmentDuration == 2
         numSegments == Min(8, extract.duration.num \div (segmentDuration * extract.duration.den))
     IN  extract' = [extract EXCEPT !.pc = "loop",
                       !.transposedChords = TransposedChords(extract.detectedKey),
                       !.numSegments = numSegments,
                       !.samplesPerSegment = extract.data.length \div Max(1, numSegments)]
  /\ UNCHANGED ExtractOthers

\* lines 58-79: one segment; energies keeps the energy of every segment
ExtractSegment ==
  /\ extract.pc = "loop"
  /\ extract.i < extract.numSegments
  /\ LET startSample == extract.i * extract.samplesPerSegment
         energy == SpanEnergy(extract.data, startSample,
                              Min(extract.data.length, startSample + extract.samplesPerSegment))
         chordIndex == (125 * energy) % Len(extract.transposedChords)
         chord == extract.transposedChords[chordIndex + 1]
     IN  extract' = [extract EXCEPT !.i = @ + 1,
                       !.energies = Append(@, energy),
                       !.chords = Append(@, [notes |-> chord.notes, name |-> chord.name,
                                             time |-> extract.i * 2, duration |-> 2,
                                             degree |-> chord.degree])]
  /\ UNCHANGED ExtractOthers

\* line 81
ExtractReturn ==
  /\ extract.pc = "loop"
  /\ ~(extract.i < extract.numSegments)
  /\ extract' = [extract EXCEPT !.pc = "done", !.result = extract.chords]
  /\ UNCHANGED ExtractOthers

ExtractNext == ExtractSetup \/ ExtractSegment \/ ExtractReturn

InitExtract ==
  /\ ExtractInit
  /\ pitch = Idle /\ tempo = Idle /\ onset = Idle /\ qtempo = Idle
  /\ key = Idle /\ trans = Idle /\ melody = Idle /\ chordgen = Idle
  /\ simplify = Idle /\ quantize = Idle

SpecExtract == InitExtract /\ [][ExtractNext]_vars

\* C13: with duration = data.length / sampleRate, extractChords emits
\* min(8, floor(duration / 2)) chords, the i-th (from 0) at time 2i with
\* duration 2, and the energy that selects the i-th chord is the sum of
\* absolute amplitudes over the samples [2i * sampleRate, (2i + 2) * sampleRate)
\* of that chord's own time span.
ExtractChordsOverOwnSpan ==
  extract.pc = "done" =>
    LET n == Len(extract.transposedChords) IN
    /\ Len(extract.result) = Min(8, extract.data.length \div (2 * extract.sampleRate))
    /\ \A k \in 1..Len(extract.result) :
         LET own == SpanEnergy(extract.data, 2 * (k - 1) * extract.sampleRate,
                               2 * k * extract.sampleRate)
         IN  /\ extract.result[k].time = 2 * (k - 1)
             /\ extract.result[k].duration = 2
             /\ extract.energies[k] = own
             /\ extract.result[k].name = extract.transposedChords[((125 * own) % n) + 1].name

\* what extractChords does instead: the count, times and durations are as
\* stated, and the energy of the i-th chord is taken over the i-th of
\* numSegments equal parts of the whole buffer
ExtractChordsOverEqualParts ==
  extract.pc = "done" =>
    LET n == Len(extract.transposedChords)
        sps == extract.data.length \div Max(1, extract.numSegments)
    IN
    /\ Len(extract.result) = Min(8, extract.data.length \div (2 * extract.sampleRate))
    /\ \A k \in 1..Len(extract.result) :
         LET part == SpanEnergy(extract.data, (k - 1) * sps, k * sps)
         IN  /\ extract.result[k].time = 2 * (k - 1)
             /\ extract.result[k].duration = 2
             /\ extract.energies[k] = part
             /\ extract.result[k].name = extract.transposedChords[((125 * part) % n) + 1].name
             /\ extract.result[k].notes = extract.transposedChords[((125 * part) % n) + 1].notes

(***************************************************************************)
(* Chords: simplifyChordProgression and getChordAtTime                     *)
(*                                                                         *)
(* Chord times and durations are integers in seconds.  A lookup returns a  *)
(* sequence: empty for null, the chord found otherwise.                    *)
(***************************************************************************)
\* the first chord whose span [time, time + duration) holds the time
getChordAtTime(chords, time) ==
  LET hits == {k \in 1..Len(chords) :
                 time >= chords[k].time /\ time < chords[k].time + chords[k].duration}
  IN  IF hits = {} THEN <<>>
      ELSE <<chords[CHOOSE k \in hits : \A j \in hits : k <= j]>>

\* longest progression tried
MaxProgression == 4

ProgressionNames == {<<"C">>, <<"F">>, <<"A", "m">>}

\* the template a name belongs to
TemplateOf(name) == CHOOSE c \in 1..Len(majorChordTemplates) : majorChordTemplates[c].name = name

\* gap-free progressions from time 0: each chord starts where the previous
\* one ends; extractChords gives every chord 2 seconds
RECURSIVE Progression(_, _, _)
Progression(names, durations, start) ==
  IF names = <<>> THEN <<>>
  ELSE <<[notes |-> majorChordTemplates[TemplateOf(Head(names))].notes,
          name |-> Head(names), time |-> start, duration |-> Head(durations),
          degree |-> majorChordTemplates[TemplateOf(Head(names))].degree]>>
       \o Progression(Tail(names), Tail(durations), start + Head(durations))

Progressions ==
  UNION {{Progression(names, durations, 0) :
            names \in [1..n -> ProgressionNames], durations \in [1..n -> {1, 2}]} :
         n \in 0..MaxProgression}

SimplifyOthers == <<pitch, tempo, onset, qtempo, key, trans, melody, chordgen,
  extract, quantize>>

SimplifyInit ==
  simplify \in [pc : {"start"}, chords : Progressions, i : {1}, simplified : {<<>>},
                result : {<<>>}, time : {0}, before : {<<>>}, after : {<<>>}]

\* lines 123-125
SimplifyStart ==
  /\ simplify.pc = "start"
  /\ simplify' = IF Len(simplify.chords) <= 1
                 THEN [simplify EXCEPT !.pc = "done", !.result = simplify.chords]
                 ELSE [simplify EXCEPT !.pc = "loop", !.simplified = <<simplify.chords[1]>>]
  /\ UNCHANGED SimplifyOthers

\* lines 127-135: one iteration; i is the code's i + 1
SimplifyChord ==
  /\ simplify.pc = "loop"
  /\ simplify.i < Len(simplify.chords)
  /\ LET prev == simplify.simplified[Len(simplify.simplified)]
         current == simplify.chords[simplify.i + 1]
     IN  simplify' = [simplify EXCEPT !.i = @ + 1,
                        !.simplified = IF current.name # prev.name
                                       THEN Append(@, current) ELSE @]
  /\ UNCHANGED SimplifyOthers

\* line 137
SimplifyReturn ==
  /\ simplify.pc = "loop"
  /\ ~(simplify.i < Len(simplify.chords))
  /\ simplify' = [simplify EXCEPT !.pc = "done", !.result = simplify.simplified]
  /\ UNCHANGED SimplifyOthers

\* getChordAtTime on the input and on the simplified progression, at a time
\* up to the end of the input
SimplifyLookup ==
  /\ simplify.pc = "done"
  /\ \E time \in 0..(2 * MaxProgression) :
       /\ time <= SumSeq([k \in 1..Len(simplify.chords) |-> simplify.chords[k].duration])
       /\ simplify' = [simplify EXCEPT !.pc = "looked", !.time = time,
                         !.before = getChordAtTime(simplify.chords, time),
                         !.after = getChordAtTime(simplify.result, time)]
  /\ UNCHANGED SimplifyOthers

SimplifyNext == SimplifyStart \/ SimplifyChord \/ SimplifyReturn \/ SimplifyLookup

InitSimplify ==
  /\ SimplifyInit
  /\ pitch = Idle /\ tempo = Idle /\ onset = Idle /\ qtempo = Idle
  /\ key = Idle /\ trans = Idle /\ melody = Idle /\ chordgen = Idle
  /\ extract = Idle /\ quantize = Idle

SpecSimplify == InitSimplify /\ [][SimplifyNext]_vars

\* the chords of the input progression from position k to the end of the
\* maximal run of equal names that position k is in
RunEnd(chords, k) ==
  CHOOSE e \in k..Len(chords) :
    /\ \A j \in k..e : chords[j].name = chords[k].name
    /\ e = Len(chords) \/ chords[e + 1].name # chords[k].name

\* C14: for a gap-free input, the chord kept for a run of same-name chords
\* spans the whole run, so at every time covered by the input getChordAtTime
\* on the simplified progression finds a chord of the same name as
\* getChordAtTime on the input.
SimplifySustainsRuns ==
  /\ simplify.pc = "looked" =>
       (simplify.before # <<>> =>
          (simplify.after # <<>> /\ simplify.after[1].name = simplify.before[1].name))
  /\ simplify.pc \in {"done", "looked"} =>
       \A s \in 1..Len(simplify.result) :
         \E k \in 1..Len(simplify.chords) :
           /\ simplify.chords[k].time = simplify.result[s].time
           /\ simplify.result[s].time + simplify.result[s].duration
                >= simplify.chords[RunEnd(simplify.chords, k)].time
                     + simplify.chords[RunEnd(simplify.chords, k)].duration

\* what simplifyChordProgression does instead: it returns the first chord of
\* every maximal run, unchanged, and drops the others
SimplifyKeepsRunHeads ==
  simplify.pc \in {"done", "looked"} =>
    LET heads == {k \in 1..Len(simplify.chords) :
                    k = 1 \/ simplify.chords[k].name # simplify.chords[k - 1].name}
    IN  /\ Len(simplify.result) = Cardinality(heads)
        /\ \A s \in 1..Len(simplify.result) :
             \E k \in heads : /\ simplify.result[s] = simplify.chords[k]
                              /\ Cardinality({j \in heads : j <= k}) = s

(***************************************************************************)
(* Melody: quantizeNotes                                                   *)
(*                                                                         *)
(* A number is NaN or the exact rational num / den (den > 0); note times   *)
(* and durations enter in milliseconds, num / 1000.  An optional duration  *)
(* is a sequence: empty for undefined, the number otherwise.               *)
(***************************************************************************)
NaN == [nan |-> TRUE, num |-> 0, den |-> 1]

Num(num, den) == [nan |-> FALSE, num |-> num, den |-> den]

\* Math.round(p / q) for q > 0: halves go up
RoundDiv(p, q) == (2 * p + q) \div (2 * q)

\* Math.round(x / gridSize) * gridSize
SnapToGrid(x, gridSize) ==
  IF x.nan \/ gridSize.nan THEN NaN
  ELSE Num(RoundDiv(x.num * gridSize.den, x.den * gridSize.num) * gridSize.num, gridSize.den)

\* Math.max of two numbers
MaxNum(a, b) ==
  IF a.nan \/ b.nan THEN NaN
  ELSE IF a.num * b.den >= b.num * a.den THEN a ELSE b

\* a number in a condition: NaN and 0 are false
Truthy(x) == ~x.nan /\ x.num # 0

\* the own properties of quantizeMap, in eighths
quantizeMap ==
  << <<<<"1", "/", "4">>, 8>>, <<<<"1", "/", "8">>, 4>>,
     <<<<"1", "/", "1", "6">>, 2>>, <<<<"1", "/", "3", "2">>, 1>> >>

\* quantizeMap is an object literal, so a property it does not own is looked
\* up on Object.prototype: these names yield a function, which is true in a
\* condition and NaN in a product
InheritedProperties ==
  {<<"c", "o", "n", "s", "t", "r", "u", "c", "t", "o", "r">>,
   <<"t", "o", "S", "t", "r", "i", "n", "g">>,
   <<"v", "a", "l", "u", "e", "O", "f">>}

\* beatDuration * (quantizeMap[quantizeValue] || 0.25), for tempo > 0
GridSize(bpm, quantizeValue) ==
  IF \E k \in 1..Len(quantizeMap) : quantizeMap[k][1] = quantizeValue
  THEN Num(60 * quantizeMap[CHOOSE k \in 1..Len(quantizeMap) : quantizeMap[k][1] = quantizeValue][2],
           8 * bpm)
  ELSE IF quantizeValue \in InheritedProperties THEN NaN
  ELSE Num(60 * 2, 8 * bpm)

quantizeNotes(notes, bpm, quantizeValue) ==
  IF quantizeValue = <<"n", "o", "n", "e">> THEN notes
  ELSE LET gridSize == GridSize(bpm, quantizeValue)
       IN  [k \in 1..Len(notes) |->
              [note |-> notes[k].note,
               time |-> SnapToGrid(notes[k].time, gridSize),
               duration |-> IF notes[k].duration # <<>> /\ Truthy(notes[k].duration[1])
                            THEN <<MaxNum(gridSize, SnapToGrid(notes[k].duration[1], gridSize))>>
                            ELSE <<>>]]

\* most notes of a melody tried
MaxQuantizeNotes == 2

QuantizeTempos == {60, 100, 120}

QuantizeValues ==
  {quantizeMap[k][1] : k \in 1..Len(quantizeMap)}
  \cup {<<"n", "o", "n", "e">>, <<>>, <<"1", "/", "3">>}
  \cup InheritedProperties

\* start times and durations in milliseconds: on and off the grids, ties
QuantizeTimes == {0, 60, 125, 300, 1000, 1062}

QuantizeDurations == {<<>>} \cup {<<Num(ms, 1000)>> : ms \in {30, 125, 375, 1000}}

QuantizeInputs ==
  UNION {[1..n -> [note : {<<"c", "4">>, <<"g", "s", "3">>},
                   time : {Num(ms, 1000) : ms \in QuantizeTimes},
                   duration : QuantizeDurations]] : n \in 0..MaxQuantizeNotes}

QuantizeOthers == <<pitch, tempo, onset, qtempo, key, trans, melody, chordgen,
  extract, simplify>>

QuantizeInit ==
  quantize \in [pc : {"start"}, notes : QuantizeInputs, tempo : QuantizeTempos,
                quantizeValue : QuantizeValues, once : {<<>>}, twice : {<<>>}]

QuantizeOnce ==
  /\ quantize.pc = "start"
  /\ quantize' = [quantize EXCEPT !.pc = "once",
                    !.once = quantizeNotes(quantize.notes, quantize.tempo, quantize.quantizeValue)]
  /\ UNCHANGED QuantizeOthers

\* the result is quantized again with the same tempo and grid
QuantizeTwice ==
  /\ quantize.pc = "once"
  /\ quantize' = [quantize EXCEPT !.pc = "twice",
                    !.twice = quantizeNotes(quantize.once, quantize.tempo, quantize.quantizeValue)]
  /\ UNCHANGED QuantizeOthers

QuantizeNext == QuantizeOnce \/ QuantizeTwice

InitQuantize ==
  /\ QuantizeInit
  /\ pitch = Idle /\ tempo = Idle /\ onset = Idle /\ qtempo = Idle
  /\ key = Idle /\ trans = Idle /\ melody = Idle /\ chordgen = Idle
  /\ extract = Idle /\ simplify = Idle

SpecQuantize == InitQuantize /\ [][QuantizeNext]_vars

\* the grid of the statement: (60 / tempo) * m, m = 1, 0.5, 0.25, 0.125 for
\* the four grid specs and 0.25 for every other one
StatedGrid(bpm, quantizeValue) ==
  Num(60 * (CASE quantizeValue = <<"1", "/", "4">> -> 8
              [] quantizeValue = <<"1", "/", "8">> -> 4
              [] quantizeValue = <<"1", "/", "3", "2">> -> 1
              [] OTHER -> 2),
      8 * bpm)

\* x is the multiple k * g of g nearest to t, for some integer k
NearestMultiple(x, t, g) ==
  /\ ~x.nan
  /\ (x.num * g.den) % (g.num * x.den) = 0
  /\ 2 * Abs(x.num * t.den - t.num * x.den) * g.den <= g.num * x.den * t.den

\* x = max(g, the multiple of g nearest to t)
NearestMultipleAtLeastGrid(x, t, g) ==
  /\ ~x.nan
  /\ x.num * g.den >= g.num * x.den
  /\ \/ NearestMultiple(x, t, g)
     \/ x.num * g.den = g.num * x.den /\ 2 * t.num * g.den <= 3 * g.num * t.den

\* the notes are mapped as stated, for the grid g
QuantizedOnGrid(notes, result, g) ==
  /\ Len(result) = Len(notes)
  /\ \A k \in 1..Len(notes) :
       /\ result[k].note = notes[k].note
       /\ NearestMultiple(result[k].time, notes[k].time, g)
       /\ notes[k].duration # <<>> =>
            /\ result[k].duration # <<>>
            /\ NearestMultipleAtLeastGrid(result[k].duration[1], notes[k].duration[1], g)

\* C15: for tempo > 0 and a grid spec other than none, quantizeNotes keeps
\* count, order and labels and maps start times to the nearest multiple of
\* gridSize and durations to max(gridSize, nearest multiple), with gridSize
\* = (60 / tempo) * m, m = 1, 0.5, 0.25, 0.125 for 1/4, 1/8, 1/16, 1/32 and
\* 0.25 for any unrecognized spec; with none the notes are unchanged; a
\* second application changes nothing.
QuantizeSnapsToStatedGrid ==
  /\ (quantize.pc \in {"once", "twice"} /\ quantize.quantizeValue # <<"n", "o", "n", "e">>)
       => QuantizedOnGrid(quantize.notes, quantize.once,
                          StatedGrid(quantize.tempo, quantize.quantizeValue))
  /\ (quantize.pc \in {"once", "twice"} /\ quantize.quantizeValue = <<"n", "o", "n", "e">>)
       => quantize.once = quantize.notes
  /\ quantize.pc = "twice" => quantize.twice = quantize.once

\* the same, for the grid specs that are not names of inherited properties
QuantizeSnapsUnlessInherited ==
  quantize.quantizeValue \notin InheritedProperties => QuantizeSnapsToStatedGrid

\* with the name of an inherited property every time and duration is NaN,
\* and a second application drops the durations
QuantizeInheritedGivesNaN ==
  (quantize.pc = "twice" /\ quantize.quantizeValue \in InheritedProperties) =>
    /\ \A k \in 1..Len(quantize.notes) :
         /\ quantize.once[k].time = NaN
         /\ quantize.notes[k].duration # <<>> => quantize.once[k].duration = <<NaN>>
         /\ quantize.twice[k].duration = <<>>

(***************************************************************************)
(* Pitch: the semitone a label names                                       *)
(***************************************************************************)
\* the equal-tempered semitone nearest to a frequency, counted from c0
NearestSemitone(freq) == (HalfSteps2(freq) + 1) \div 2

\* the pitch class a note label spells, or -1
LabelPitchClass(label) == IndexOf(NOTE_NAMES, SubSeq(label, 1, NoteMatch(label)))

\* C16: for every frequency f of at least 50 Hz, frequencyToNote(f) names
\* the semitone nearest to f with the pitch class and the octave of that
\* semitone, so noteToFrequency of the label is within half a semitone of f,
\* and the label's pitch class is frequencyToPitchClass(f).
LabelNamesNearestSemitone ==
  (pitch.pc \in {"back", "done"} /\ pitch.freq >= 50000) =>
    LET s == NearestSemitone(pitch.freq) IN
    /\ pitch.label = NOTE_NAMES[(s % 12) + 1] \o IntToString(s \div 12)
    /\ pitch.back = QuarterToneFreq(2 * s)
    /\ HalfSteps2(pitch.freq) \in {HalfSteps2(pitch.back) - 1, HalfSteps2(pitch.back)}
    /\ LabelPitchClass(pitch.label) = frequencyToPitchClass(pitch.freq)

\* what frequencyToNote does instead: the pitch class is that of the nearest
\* semitone, the octave is that of the frequency itself, so a frequency less
\* than a quarter tone below a C is labelled an octave too low
LabelOctaveIsOfFrequency ==
  (pitch.pc \in {"back", "done"} /\ pitch.freq >= 50000) =>
    LET s == NearestSemitone(pitch.freq) IN
    /\ pitch.label = NOTE_NAMES[(s % 12) + 1] \o IntToString(HalfSteps2(pitch.freq) \div 24)
    /\ LabelPitchClass(pitch.label) = frequencyToPitchClass(pitch.freq)
    /\ (s \div 12 # HalfSteps2(pitch.freq) \div 24)
         => (s % 12 = 0 /\ pitch.back = QuarterToneFreq(2 * (s - 12)))

(***************************************************************************)
(* The library: any one of its functions is called                         *)
(***************************************************************************)
Init ==
  \/ InitPitch \/ InitQtempo \/ InitOnset \/ InitTempo
  \/ InitKey \/ InitTrans \/ InitMelody \/ InitChordgen
  \/ InitExtract \/ InitSimplify \/ InitQuantize

Next ==
  \/ PitchNext \/ QtempoNext \/ OnsetNext \/ TempoNext
  \/ KeyNext \/ TransNext \/ MelodyNext \/ ChordgenNext
  \/ ExtractNext \/ SimplifyNext \/ QuantizeNext

Spec == Init /\ [][Next]_vars

====
